---- MODULE Spec2Model ----
(***************************************************************************)
(* godns: a model of the service package (src/service/service.go, the      *)
(* version of lines 187-407, and src/service/ip.go).                       *)
(*                                                                         *)
(* One process: main calls New and then Service.Run, which creates a       *)
(* time.Ticker and loops: execute, then receive from the ticker channel.   *)
(* execute resolves the external IP and then calls updateHost for every    *)
(* configured host, one after the other.  The environment advances time,   *)
(* answers the HTTP requests and may cancel the context given to Run.      *)
(*                                                                         *)
(* Strings whose content the code inspects or builds (response bodies,     *)
(* formatted numbers) are sequences of one-character strings.              *)
(***************************************************************************)
EXTENDS Integers, Sequences, FiniteSets, TLC

\* ------------------------------------------------------------------ bounds

\* Time units the model lets pass after the ticker was created.
MaxTime == 5
\* Largest configured interval, in time units.
MaxInterval == 2
\* Largest number of entries in the configured host list.
MaxHosts == 1

\* --------------------------------------------------------------- constants

\* http.StatusMultipleChoices
StatusMultipleChoices == 300

\* httpTimeout, in seconds: the Timeout of the client New builds for the updates.
httpTimeout == 5

\* ----------------------------------------------------------------- strings

Digits == <<"0", "1", "2", "3", "4", "5", "6", "7", "8", "9">>

RECURSIVE Itoa(_)
\* fmt's %d of a non-negative int
Itoa(n) == IF n < 10 THEN <<Digits[n + 1]>>
           ELSE Itoa(n \div 10) \o <<Digits[(n % 10) + 1]>>

\* unicode.IsSpace on the characters the model uses
IsSpace(c) == c \in {" ", "\t", "\n", "\r", "\f"}

RECURSIVE TrimLeft(_)
TrimLeft(s) == IF s # <<>> /\ IsSpace(Head(s)) THEN TrimLeft(Tail(s)) ELSE s

RECURSIVE TrimRight(_)
TrimRight(s) == IF s # <<>> /\ IsSpace(s[Len(s)])
                THEN TrimRight(SubSeq(s, 1, Len(s) - 1)) ELSE s

\* A trim of the leading white space only.
TrimSpaceLeft(s) == TrimLeft(s)

\* strings.TrimSpace
TrimSpace(s) == TrimRight(TrimLeft(s))

\* A test for the whole string in place of a substring.
ContainsWhole(s, sub) == s = sub

\* strings.Contains
Contains(s, sub) ==
    \E i \in 0..(Len(s) - Len(sub)) : SubSeq(s, i + 1, i + Len(sub)) = sub

StrGood == <<"g", "o", "o", "d">>
StrNochg == <<"n", "o", "c", "h", "g">>


\* --------------------------------------------------------------- encoding

\* The ASCII characters of the codes 32 (space) to 95 (_), in code order.
AsciiLow ==
    << " ", "!", "\"", "#", "$", "%", "&", "'", "(", ")", "*", "+", ",", "-", ".", "/",
       "0", "1", "2", "3", "4", "5", "6", "7", "8", "9", ":", ";", "<", "=", ">", "?",
       "@", "A", "B", "C", "D", "E", "F", "G", "H", "I", "J", "K", "L", "M", "N", "O",
       "P", "Q", "R", "S", "T", "U", "V", "W", "X", "Y", "Z", "[", "\\", "]", "^", "_" >>

\* The ASCII characters of the codes 97 (a) to 126 (~), in code order.
AsciiHigh ==
    << "a", "b", "c", "d", "e", "f", "g", "h", "i", "j", "k", "l", "m", "n", "o", "p",
       "q", "r", "s", "t", "u", "v", "w", "x", "y", "z", "{", "|", "}", "~" >>

\* The byte of a character.
Byte(c) ==
    IF \E k \in 1..Len(AsciiLow) : AsciiLow[k] = c
    THEN 31 + CHOOSE k \in 1..Len(AsciiLow) : AsciiLow[k] = c
    ELSE 96 + CHOOSE k \in 1..Len(AsciiHigh) : AsciiHigh[k] = c

\* []byte(s): the byte of every character of a string.
Bytes(s) == [i \in 1..Len(s) |-> Byte(s[i])]

\* The alphabet of base64.StdEncoding.
encodeStd ==
    << "A", "B", "C", "D", "E", "F", "G", "H", "I", "J", "K", "L", "M", "N", "O", "P",
       "Q", "R", "S", "T", "U", "V", "W", "X", "Y", "Z", "a", "b", "c", "d", "e", "f",
       "g", "h", "i", "j", "k", "l", "m", "n", "o", "p", "q", "r", "s", "t", "u", "v",
       "w", "x", "y", "z", "0", "1", "2", "3", "4", "5", "6", "7", "8", "9", "+", "/" >>

RECURSIVE EncodeToString(_)
\* base64.StdEncoding.EncodeToString: every three bytes give four characters of
\* the alphabet, six bits each; a last group of one or two bytes is padded
\* with "=".
EncodeToString(b) ==
    IF Len(b) = 0 THEN <<>>
    ELSE LET n == b[1] * 65536
                  + (IF Len(b) >= 2 THEN b[2] * 256 ELSE 0)
                  + (IF Len(b) >= 3 THEN b[3] ELSE 0)
             c1 == encodeStd[(n \div 262144) + 1]
             c2 == encodeStd[((n \div 4096) % 64) + 1]
             c3 == encodeStd[((n \div 64) % 64) + 1]
             c4 == encodeStd[(n % 64) + 1]
         IN IF Len(b) = 1 THEN <<c1, c2, "=", "=">>
            ELSE IF Len(b) = 2 THEN <<c1, c2, c3, "=">>
            ELSE <<c1, c2, c3, c4>> \o EncodeToString(SubSeq(b, 4, Len(b)))

StrBasic == <<"B", "a", "s", "i", "c", " ">>

\* ------------------------------------------------------------------ errors

\* An error value is the chain of its frames, outermost first; nil is the
\* empty chain.  A frame is a message and its formatted argument.
Nil == <<>>

Frame(msg, arg) == [msg |-> msg, arg |-> arg]

\* errors.Errorf / fmt.Errorf without %w / errors.New: a fresh error
Errorf(msg, arg) == <<Frame(msg, arg)>>

\* errors.Wrap(cause, msg) and fmt.Errorf("msg: %w", cause)
Wrap(cause, msg, arg) == <<Frame(msg, arg)>> \o cause

\* errors.Unwrap
Unwrap(e) == IF e = Nil THEN Nil ELSE Tail(e)

\* context.Canceled, as returned by ctx.Err() and by a request whose context is done
ErrCanceled == Errorf("context canceled", <<>>)
\* a transport failure of the HTTP client (dial, TLS, reset, ...)
ErrTransport == Errorf("transport failure", <<>>)
\* the http.Client's Timeout elapsed
ErrTimeout == Errorf("Client.Timeout exceeded", <<>>)
\* reading the response body failed
ErrRead == Errorf("unexpected EOF", <<>>)

errDNSUpdate == Errorf("received error code from Dynamic DNS service", <<>>)

\* The error ioutil.ReadAll returns for an answer whose body cannot be read.
ReadError(kind) ==
    IF kind = "readcanceled" THEN ErrCanceled
    ELSE IF kind = "readtimeout" THEN ErrTimeout
    ELSE ErrRead

\* One entry of the logger; host is the list of the "host" fields it has.
Entry(level, msg, host) == [level |-> level, msg |-> msg, host |-> host]

\* ------------------------------------------------------------ environment

\* The i-th host entry of the configuration documents.
Host(i) == [host |-> <<"h">> \o Itoa(i) \o <<".", "i", "o">>,
            user |-> <<"u">> \o Itoa(i),
            password |-> <<"p">> \o Itoa(i)]

\* The host lists of the configuration documents: none to MaxHosts entries.
HostLists == { [i \in 1..n |-> Host(i)] : n \in 0..MaxHosts }

Intervals == (-1)..MaxInterval

\* What the IP-echo service may answer to one request.
IPBodies == { <<" ", "1", ".", "2", "\n">>, <<"3", ".", "4">> }

\* Bodies of the IP-echo service that hold no address: nothing, or whitespace.
BlankBodies == { <<>>, <<" ", "\n">> }

\* The answers to one request of an IP-echo service whose successful answers
\* carry one of answers.
IPResponses(answers) ==
    { [kind |-> "transport", status |-> 0, body |-> <<>>] }
    \cup { [kind |-> "response", status |-> 500, body |-> <<>>] }
    \cup { [kind |-> "readerr", status |-> 200, body |-> <<>>] }
    \cup { [kind |-> "response", status |-> 200, body |-> b] : b \in answers }

\* What the Dynamic DNS service may answer to one update request.
UpdateBodies == { StrGood \o <<" ", "1">>, StrNochg \o <<" ", "1">>,
                  <<"b", "a", "d", "a", "u", "t", "h">> }

\* The answer of a request that s.client gave up.
TimeoutResponse == [kind |-> "timeout", status |-> 0, body |-> <<>>]

\* The answer of a request whose headers came with status 200 and whose body
\* s.client gave up reading: the Timeout covers the reading of the body.
ReadTimeoutResponse == [kind |-> "readtimeout", status |-> 200, body |-> <<>>]

\* The answer of a request whose headers came with status 200 under a live
\* context that was cancelled while the body was read.
ReadCanceledResponse == [kind |-> "readcanceled", status |-> 200, body |-> <<>>]

\* The ways ioutil.ReadAll fails: the connection breaks, the client's Timeout
\* elapses, the context is cancelled.
ReadKinds == {"readerr", "readtimeout", "readcanceled"}

UpdateResponses ==
    { [kind |-> "transport", status |-> 0, body |-> <<>>] }
    \cup { [kind |-> "response", status |-> 302, body |-> StrGood] }
    \cup { [kind |-> "readerr", status |-> 200, body |-> <<>>] }
    \cup { [kind |-> "response", status |-> 200, body |-> b] : b \in UpdateBodies }

\* ------------------------------------------------------------------- state

VARIABLES
    cfgFile,    \* the configuration file: "missing", "malformed" or "ok"
    cfgDoc,     \* the configuration the file decodes to
    config,     \* Service.config, once New has returned a Service
    client,     \* Service.client: which http.Client it is ("nil": none yet)
    newErr,     \* the error New returned
    pc,         \* where main / Service.Run / Service.execute stands
    cancelled,  \* whether the context given to Run is done
    elapsed,    \* time units since time.NewTicker
    chan,       \* number of ticks buffered in the ticker channel c.C (0 or 1)
    started,    \* number of calls of Service.execute so far
    ip,         \* execute's ip
    resolveErr, \* what externalIP returned as its error in this pass
    err,        \* execute's named result err
    idx,        \* execute's position in s.config.Hosts
    calls,      \* the updateHost calls of this pass: <<[host, ip, req, client], ...>>
    hostErrs,   \* what each updateHost call of this pass returned
    ipCalls,    \* number of externalIP calls of this pass
    log,        \* what this pass wrote to the logger: <<[level, msg, host], ...>>
    inCall,     \* seconds the updateHost call in flight has been waiting for
    lastErr,    \* what the most recent completed execute returned to Run
    lastReturn, \* elapsed when the most recent execute returned (-1: none yet)
    finished,   \* number of calls of Service.execute that have returned
    instant,    \* no time has passed so far during a pass
    cancelAt,   \* pc at the moment the context was cancelled ("none": never)
    probe,      \* the last application of a pure function to a drawn input
    measures,   \* the measures this pass recorded: <<name, ...>>
    bodies,     \* the response bodies this pass obtained: "closed" or "open" each
    spans,      \* the spans that are started and not finished
    runCtx,     \* spans between the context given to Run and the iteration's ctx
    prevIP,     \* the address the pass before this one sent to the hosts
    echo        \* the bodies the IP-echo service answers with during this run

vars == <<cfgFile, cfgDoc, config, client, newErr, pc, cancelled, elapsed, chan, started,
          ip, resolveErr, err, idx, calls, hostErrs, ipCalls, log, inCall,
          lastErr, lastReturn, finished, instant, cancelAt, probe,
          measures, bodies, spans, runCtx, prevIP, echo>>

cfgVars == <<cfgFile, cfgDoc, echo>>
tickVars == <<ip, resolveErr, err, idx, calls, hostErrs, ipCalls, log>>
histVars == <<lastErr, lastReturn, finished>>
obsVars == <<measures, bodies, spans, runCtx, prevIP>>

\* No pass before this one sent an address to a host.
NoIP == <<"none">>

\* No pure function has been applied yet.
NoProbe == [fn |-> "none", ctxDone |-> FALSE, r |-> TimeoutResponse, host |-> Host(1),
            ip |-> <<>>, err |-> Nil, log |-> Entry("", "", <<>>)]

ZeroConfig == [interval |-> 0, hosts |-> <<>>]

\* The positions inside Service.execute.
InPass == {"resolve", "hosts", "update", "executed"}
\* The positions inside the for loop of Service.Run.
InLoop == InPass \cup {"loop", "wait"}

\* The state before main calls New, for the configuration documents docs and
\* an IP-echo service that answers with one of answers.
Start(docs, answers) ==
    /\ echo = answers
    /\ cfgFile \in {"missing", "malformed", "ok"}
    /\ cfgDoc \in IF cfgFile = "ok"
                  THEN docs
                  ELSE {ZeroConfig}
    /\ config = ZeroConfig
    /\ client = "nil"
    /\ newErr = Nil
    /\ pc = "start"
    /\ cancelled = FALSE
    /\ elapsed = 0
    /\ chan = 0
    /\ started = 0
    /\ ip = <<>>
    /\ resolveErr = Nil
    /\ err = Nil
    /\ idx = 0
    /\ calls = <<>>
    /\ hostErrs = <<>>
    /\ ipCalls = 0
    /\ log = <<>>
    /\ inCall = 0
    /\ lastErr = Nil
    /\ lastReturn = -1
    /\ finished = 0
    /\ instant = TRUE
    /\ cancelAt = "none"
    /\ probe = NoProbe
    /\ measures = <<>>
    /\ bodies = <<>>
    /\ spans = {}
    /\ runCtx = 0
    /\ prevIP = NoIP

Init == Start([interval : Intervals, hosts : HostLists], IPBodies)

\* ------------------------------------------------------- the pure functions

\* externalIP (ip.go): the address and the error for one answer of the
\* IP-echo service, under a context that is done or not.
externalIP(ctxDone, r) ==
    IF ctxDone \/ r.kind = "transport"
    THEN [ip |-> <<>>, err |-> Errorf("failed to execute HTTP request", <<>>)]
    ELSE IF r.status >= StatusMultipleChoices
    THEN [ip |-> <<>>,
          err |-> Errorf("failed to make IP lookup, failed with status code '%d'",
                         Itoa(r.status))]
    ELSE IF r.kind \in ReadKinds
    THEN [ip |-> <<>>, err |-> Wrap(ReadError(r.kind), "failed to read body", <<>>)]
    ELSE [ip |-> TrimSpace(r.body), err |-> Nil]

\* externalIP (ip.go): what becomes of the body of the response it obtained.
\* The deferred resp.Body.Close() is registered after the status check, so a
\* response with a status of 300 or more is returned from with its body open.
externalIPBody(ctxDone, r) ==
    IF ctxDone \/ r.kind = "transport"
    THEN <<>>
    ELSE IF r.status >= StatusMultipleChoices
    THEN <<"open">>
    ELSE <<"closed">>

\* Service.updateHost: what becomes of the body of the response it obtained.
\* As in externalIP, the deferred Close comes after the status check.
updateHostBody(ctxDone, r) ==
    IF ctxDone \/ r.kind \in {"transport", "timeout"}
    THEN <<>>
    ELSE IF r.status >= StatusMultipleChoices
    THEN <<"open">>
    ELSE <<"closed">>

\* An updateHost that reads the body before it looks at the status.
updateHostBodyFirst(ctxDone, r) ==
    IF ctxDone
    THEN Wrap(ErrCanceled, "failed to make request to Dynamic DNS Service", <<>>)
    ELSE IF r.kind = "transport"
    THEN Wrap(ErrTransport, "failed to make request to Dynamic DNS Service", <<>>)
    ELSE IF r.kind = "timeout"
    THEN Wrap(ErrTimeout, "failed to make request to Dynamic DNS Service", <<>>)
    ELSE IF r.kind \in ReadKinds
    THEN Wrap(ReadError(r.kind), "failed to decode result from Dynamic DNS Service", <<>>)
    ELSE IF Contains(r.body, StrGood) THEN Nil
    ELSE IF Contains(r.body, StrNochg) THEN Nil
    ELSE IF r.status >= StatusMultipleChoices
    THEN Errorf("failed to query Dynamic DNS Service, received '%d'", Itoa(r.status))
    ELSE Wrap(errDNSUpdate, "%s", r.body)

\* Service.updateHost from s.client.Do on: the error for one answer of the
\* Dynamic DNS service.
updateHost(ctxDone, r) ==
    IF ctxDone
    THEN Wrap(ErrCanceled, "failed to make request to Dynamic DNS Service", <<>>)
    ELSE IF r.kind = "transport"
    THEN Wrap(ErrTransport, "failed to make request to Dynamic DNS Service", <<>>)
    ELSE IF r.kind = "timeout"
    THEN Wrap(ErrTimeout, "failed to make request to Dynamic DNS Service", <<>>)
    ELSE IF r.status >= StatusMultipleChoices
    THEN Errorf("failed to query Dynamic DNS Service, received '%d'", Itoa(r.status))
    ELSE IF r.kind \in ReadKinds
    THEN Wrap(ReadError(r.kind), "failed to decode result from Dynamic DNS Service", <<>>)
    ELSE IF Contains(r.body, StrGood) THEN Nil
    ELSE IF Contains(r.body, StrNochg) THEN Nil
    ELSE Wrap(errDNSUpdate, "%s", r.body)

\* An updateHost that looks for "nochg" before it looks for "good".
updateHostLogNochgFirst(ctxDone, r, host) ==
    IF ctxDone \/ r.kind \in {"transport", "timeout"}
          \/ r.status >= StatusMultipleChoices
    THEN Entry("error", "failed to make request to DNS service", <<>>)
    ELSE IF r.kind \in ReadKinds
    THEN Entry("error", "failed to decode result from Dynamic DNS Service", <<>>)
    ELSE IF Contains(r.body, StrNochg)
    THEN Entry("info", "no change was recorded", <<host.host>>)
    ELSE IF Contains(r.body, StrGood)
    THEN Entry("info", "change was successfully applied", <<host.host>>)
    ELSE Entry("error", "received error from Dynamic DNS service", <<>>)

\* Service.updateHost from s.client.Do on: what it logs about the answer.
updateHostLog(ctxDone, r, host) ==
    IF ctxDone \/ r.kind \in {"transport", "timeout"}
          \/ r.status >= StatusMultipleChoices
    THEN Entry("error", "failed to make request to DNS service", <<>>)
    ELSE IF r.kind \in ReadKinds
    THEN Entry("error", "failed to decode result from Dynamic DNS Service", <<>>)
    ELSE IF Contains(r.body, StrGood)
    THEN Entry("info", "change was successfully applied", <<host.host>>)
    ELSE IF Contains(r.body, StrNochg)
    THEN Entry("info", "no change was recorded", <<host.host>>)
    ELSE Entry("error", "received error from Dynamic DNS service", <<>>)

\* An execute that logs a failed update without the host it was for.
executeReportWithoutHost(e, host) ==
    IF e # Nil THEN <<Entry("error", "failed to update host", <<>>)>> ELSE <<>>

\* Service.execute, after updateHost returned e for host: what it logs.
executeReport(e, host) ==
    IF e # Nil THEN <<Entry("error", "failed to update host", <<host.host>>)>> ELSE <<>>

\* A client without a Timeout, as the one externalIP builds.
deadlineNever(t) == FALSE

\* Whether s.client gives up a request that has been in flight for t seconds:
\* New sets its Timeout to httpTimeout.
deadlineExceeded(t) == t >= httpTimeout

\* A request that leaves the address to the service, which then takes the
\* source address of the connection.
updateRequestWithoutIP(host, addr) ==
    [method |-> "GET",
     url |-> "https://domains.google.com/nic/update",
     query |-> [hostname |-> <<host.host>>, myip |-> <<>>],
     header |-> [Authorization |->
                     <<StrBasic \o EncodeToString(Bytes(host.user \o <<":">> \o host.password))>>,
                 UserAgent |->
                     <<"Mozilla/5.0 (compatible; MSIE 9.0; Windows NT 6.1; Trident/5.0)">>]]

\* The request of the first version of updateHost, a POST.
updateRequestPost(host, addr) ==
    [method |-> "POST",
     url |-> "https://domains.google.com/nic/update",
     query |-> [hostname |-> <<host.host>>, myip |-> <<addr>>],
     header |-> [Authorization |->
                     <<StrBasic \o EncodeToString(Bytes(host.user \o <<":">> \o host.password))>>,
                 UserAgent |->
                     <<"Mozilla/5.0 (compatible; MSIE 9.0; Windows NT 6.1; Trident/5.0)">>]]

\* Service.updateHost up to s.client.Do: the request it builds for a host and
\* an address.  query is the url.Values behind req.URL.RawQuery and header the
\* http.Header: each key has the list of the values added to it.
updateRequest(host, addr) ==
    [method |-> "GET",
     url |-> "https://domains.google.com/nic/update",
     query |-> [hostname |-> <<host.host>>, myip |-> <<addr>>],
     header |-> [Authorization |->
                     <<StrBasic \o EncodeToString(Bytes(host.user \o <<":">> \o host.password))>>,
                 UserAgent |->
                     <<"Mozilla/5.0 (compatible; MSIE 9.0; Windows NT 6.1; Trident/5.0)">>]]

\* ------------------------------------------------------------ control flow

\* A main that goes on to Run although New returned an error.
mainAfterNewIgnoresError(e) == "constructed"

\* main, after service.New returned e: logger.Fatal ends the process on an error.
mainAfterNew(e) == IF e # Nil THEN "fatal" ELSE "constructed"

RECURSIVE Deduplicated(_)
\* The entries of a host list without those whose name an earlier entry has.
Deduplicated(hosts) ==
    IF hosts = <<>> THEN <<>>
    ELSE LET init == SubSeq(hosts, 1, Len(hosts) - 1)
             last == hosts[Len(hosts)]
         IN IF \E i \in 1..Len(init) : init[i].host = last.host
            THEN Deduplicated(init)
            ELSE Append(Deduplicated(init), last)

\* A New that keeps one entry per host name.
serviceConfigDeduplicated(doc) == [doc EXCEPT !.hosts = Deduplicated(doc.hosts)]

\* A New that keeps the hosts in the reverse order.
serviceConfigReversed(doc) ==
    [doc EXCEPT !.hosts = [i \in 1..Len(doc.hosts) |-> doc.hosts[Len(doc.hosts) + 1 - i]]]

\* New, from the decoded Config to Service.config: the struct is stored as it is.
serviceConfig(doc) == doc

\* An updateHost that builds a client of its own, as externalIP does.
updateClientOwn(c) == "updateHost"

\* The http.Client updateHost sends its request with: s.client.
updateClient(c) == c

\* A Run that receives from the ticker before its first pass.
runFirstWaits == "wait"

\* Service.Run, after time.NewTicker: the loop body runs before the first receive.
runFirst == "loop"

\* A Run that returns the error of a failed pass (as the first version did).
runAfterExecuteReturnsError(e) == IF e # Nil THEN "returned" ELSE "wait"

\* Service.Run, after s.execute returned e: the error is logged, the span is
\* finished and Run blocks on <-c.C.
runAfterExecute(e) == "wait"

\* A Run whose loop assigns the context of an iteration to the variable the
\* next iteration derives its own from.
runIterationCtxChained(prev) == prev + 1

\* Service.Run, at the top of the loop body: span, ctx := StartSpanFromContext(ctx,
\* ...) declares a ctx of the iteration and derives it from Run's parameter,
\* whatever the iterations before (prev) have derived.
runIterationCtx(prev) == 1

\* Service.execute, on entry: the measures it records before it calls
\* externalIP.  It records none: s.count is never measured.
executeEntryMeasures == <<>>

\* An execute that records its measures at the end of its body, which the
\* return of a failed resolution never reaches.
executeDeferredAtEnd(e) == IF e # Nil THEN <<>> ELSE <<"operation_latency">>

\* Service.execute, the deferred function, for the result err = e: the
\* latency always, the error count when the result is not nil.
executeDeferred(e) ==
    <<"operation_latency">> \o (IF e # Nil THEN <<"operation_errors">> ELSE <<>>)

\* An execute that leaves the hosts alone when the address is the one the
\* pass before has sent.
executeAfterIPSkipsUnchanged(res, hosts) ==
    IF res.err # Nil
    THEN [next |-> "executed",
          err |-> Wrap(res.err, "failed to get local IP address", <<>>)]
    ELSE [next |-> IF Len(hosts) = 0 \/ res.ip = prevIP THEN "executed" ELSE "hosts",
          err |-> Nil]

\* An execute that asks for the address again when the resolution failed.
executeAfterIPRetries(res, hosts) ==
    IF res.err # Nil
    THEN [next |-> "resolve", err |-> Nil]
    ELSE [next |-> IF Len(hosts) = 0 THEN "executed" ELSE "hosts", err |-> Nil]

\* An execute that logs a failed resolution and goes on to the hosts.
executeAfterIPGoesOn(res, hosts) ==
    [next |-> IF Len(hosts) = 0 THEN "executed" ELSE "hosts", err |-> Nil]

\* Service.execute, after externalIP returned res: what execute does next and
\* its result err.
executeAfterIP(res, hosts) ==
    IF res.err # Nil
    THEN [next |-> "executed",
          err |-> Wrap(res.err, "failed to get local IP address", <<>>)]
    ELSE [next |-> IF Len(hosts) = 0 THEN "executed" ELSE "hosts", err |-> Nil]

\* An execute that returns at the first host whose update failed.
executeAfterHostStopsOnError(e, i, n) ==
    IF e # Nil THEN "executed" ELSE IF i < n THEN "hosts" ELSE "executed"

\* Service.execute, after updateHost returned e for host i of n: the error is
\* logged and the range loop goes on.
executeAfterHost(e, i, n) == IF i < n THEN "hosts" ELSE "executed"

\* Service.execute, after the range loop: return nil.
executeResult(errs) == Nil

\* Whether the context was done before the client's Do returned, given that it
\* is done (ctxDone) when the call returns answer r: an answer whose body was
\* being read when the context was cancelled came from a Do under a live one.
doCtxDone(ctxDone, r) == ctxDone /\ r.kind # "readcanceled"

\* An execute whose calls share a group context that the first failure cancels.
updateCtxDoneOnSiblingFailure(ctxDone, errs) ==
    ctxDone \/ \E i \in 1..Len(errs) : errs[i] # Nil

\* Whether the context of an update request is done, given Run's context and
\* what the earlier calls of the pass returned: execute hands its own ctx, a
\* child of Run's that nothing in the pass cancels, to every updateHost.
updateCtxDone(ctxDone, errs) == ctxDone

\* ----------------------------------------------------------------- actions

\* main calls service.New: the file is opened and decoded.
New ==
    /\ pc = "start"
    /\ LET e == IF cfgFile = "missing"
                THEN Wrap(Errorf("no such file", <<>>), "failed to open config file", <<>>)
                ELSE IF cfgFile = "malformed"
                THEN Wrap(Errorf("yaml", <<>>), "failed to read config file", <<>>)
                ELSE Nil
       IN /\ newErr' = e
          /\ config' = IF e = Nil THEN serviceConfig(cfgDoc) ELSE config
          /\ client' = IF e = Nil THEN "New" ELSE client
          /\ pc' = mainAfterNew(e)
    /\ UNCHANGED <<cfgVars, obsVars, probe, inCall, cancelled, elapsed, chan, started, tickVars,
                   histVars, instant, cancelAt>>

\* Service.Run up to the for loop: time.NewTicker panics on a non-positive interval.
RunEntry ==
    /\ pc = "constructed"
    /\ pc' = IF config.interval <= 0 THEN "panic" ELSE runFirst
    /\ UNCHANGED <<cfgVars, obsVars, probe, inCall, config, client, newErr, cancelled, elapsed, chan, started,
                   tickVars, histVars, instant, cancelAt>>

\* Service.Run calls s.execute(ctx), which calls externalIP(ctx).
ExecuteBegin ==
    /\ pc = "loop"
    /\ started' = started + 1
    /\ ip' = <<>>
    /\ resolveErr' = Nil
    /\ err' = Nil
    /\ idx' = 0
    /\ calls' = <<>>
    /\ hostErrs' = <<>>
    /\ ipCalls' = 1
    /\ log' = <<>>
    /\ runCtx' = runIterationCtx(runCtx)
    /\ spans' = spans \cup {"service.Run", "service.execute"}
    /\ measures' = executeEntryMeasures
    /\ bodies' = <<>>
    /\ prevIP' = IF calls = <<>> THEN NoIP ELSE calls[Len(calls)].ip
    /\ pc' = "resolve"
    /\ UNCHANGED <<cfgVars, probe, inCall, config, client, newErr, cancelled, elapsed, chan, histVars,
                   instant, cancelAt>>

\* externalIP returns; execute returns at once on an error.
ResolveReturn ==
    /\ pc = "resolve"
    /\ \E r \in IPResponses(echo)
                  \cup (IF cancelled THEN {ReadCanceledResponse} ELSE {}) :
         LET ctxDone == doCtxDone(cancelled, r)
             res == externalIP(ctxDone, r)
             nxt == executeAfterIP(res, config.hosts)
         IN /\ ip' = res.ip
            /\ resolveErr' = res.err
            /\ err' = nxt.err
            /\ pc' = nxt.next
            /\ idx' = IF nxt.next = "hosts" THEN 1 ELSE idx
            /\ log' = IF res.err # Nil
                       THEN Append(log, Entry("error", "failed to get local IP address", <<>>))
                       ELSE log
            /\ bodies' = bodies \o externalIPBody(ctxDone, r)
    /\ UNCHANGED <<cfgVars, measures, spans, runCtx, prevIP, probe, inCall, config, client, newErr, cancelled, elapsed, chan,
                   started, calls, hostErrs, ipCalls, histVars, instant, cancelAt>>

\* execute calls s.updateHost(ctx, host, ip) for the next host of the range.
HostCall ==
    /\ pc = "hosts"
    /\ calls' = Append(calls, [host |-> config.hosts[idx], ip |-> ip,
                             req |-> updateRequest(config.hosts[idx], ip),
                             client |-> updateClient(client)])
    /\ log' = Append(log, Entry("info", "updating host", <<config.hosts[idx].host>>))
    /\ inCall' = 0
    /\ spans' = spans \cup {"service.update"}
    /\ pc' = "update"
    /\ UNCHANGED <<cfgVars, measures, bodies, runCtx, prevIP, probe, config, client, newErr, cancelled, elapsed, chan, started,
                   ip, resolveErr, err, idx, hostErrs, ipCalls, histVars, instant,
                   cancelAt>>

\* updateHost returns.
HostReturn ==
    /\ pc = "update"
    /\ \E r \in (IF deadlineExceeded(inCall)
                   THEN {TimeoutResponse, ReadTimeoutResponse}
                   ELSE UpdateResponses)
                  \cup (IF cancelled THEN {ReadCanceledResponse} ELSE {}) :
         LET host == config.hosts[idx]
             ctxDone == doCtxDone(updateCtxDone(cancelled, hostErrs), r)
             e == updateHost(ctxDone, r)
             nxt == executeAfterHost(e, idx, Len(config.hosts))
         IN /\ hostErrs' = Append(hostErrs, e)
            /\ log' = log \o <<updateHostLog(ctxDone, r, host)>> \o executeReport(e, host)
            /\ pc' = nxt
            /\ idx' = IF nxt = "hosts" THEN idx + 1 ELSE idx
            /\ err' = IF nxt = "hosts" THEN err ELSE executeResult(hostErrs')
            /\ bodies' = bodies \o updateHostBody(ctxDone, r)
    /\ inCall' = 0
    /\ spans' = spans \ {"service.update"}
    /\ UNCHANGED <<cfgVars, measures, runCtx, prevIP, probe, config, client, newErr, cancelled, elapsed, chan, started,
                   ip, resolveErr, calls, ipCalls, histVars, instant, cancelAt>>

\* An execute that takes the hosts it has gone through off the list.
ExecuteReturnConsumesHosts ==
    /\ pc = "executed"
    /\ lastErr' = err
    /\ lastReturn' = elapsed
    /\ finished' = finished + 1
    /\ pc' = runAfterExecute(err)
    /\ measures' = measures \o executeDeferred(err)
    /\ spans' = (spans \ {"service.execute"}) \ {"service.Run"}
    /\ config' = [config EXCEPT !.hosts = SubSeq(config.hosts, Len(calls) + 1,
                                                  Len(config.hosts))]
    /\ UNCHANGED <<cfgVars, bodies, runCtx, prevIP, probe, inCall, client, newErr, cancelled, elapsed, chan,
                   started, tickVars, instant, cancelAt>>

\* execute returns to Run.
ExecuteReturn ==
    /\ pc = "executed"
    /\ lastErr' = err
    /\ lastReturn' = elapsed
    /\ finished' = finished + 1
    /\ pc' = runAfterExecute(err)
    /\ measures' = measures \o executeDeferred(err)
    /\ spans' = (spans \ {"service.execute"}) \ {"service.Run"}
    /\ UNCHANGED <<cfgVars, bodies, runCtx, prevIP, probe, inCall, config, client, newErr, cancelled, elapsed,
                   chan, started, tickVars, instant, cancelAt>>

\* A Run that starts the next iteration at a tick although the pass it made
\* is still waiting for the network.
ReceiveDuringPass ==
    /\ pc \in {"wait", "resolve", "update"}
    /\ chan = 1
    /\ chan' = 0
    /\ pc' = "loop"
    /\ UNCHANGED <<cfgVars, obsVars, probe, inCall, config, client, newErr, cancelled, elapsed, started,
                   tickVars, histVars, instant, cancelAt>>

\* Run receives a tick from c.C and starts the next iteration.
Receive ==
    /\ pc = "wait"
    /\ chan = 1
    /\ chan' = 0
    /\ pc' = "loop"
    /\ UNCHANGED <<cfgVars, obsVars, probe, inCall, config, client, newErr, cancelled, elapsed, started,
                   tickVars, histVars, instant, cancelAt>>

\* Run is blocked: in a network call of the pass that can still last, or on
\* the empty ticker channel.
Blocked ==
    \/ pc = "resolve"
    \/ pc = "update" /\ ~deadlineExceeded(inCall)
    \/ pc = "wait" /\ chan = 0

\* One time unit passes.  Time passes only while Run is blocked: its own steps
\* take no time.  The ticker fires at every multiple of the interval since its
\* creation; its channel holds one tick, a tick that finds the channel full is
\* dropped.
Tick ==
    /\ Blocked
    /\ elapsed < MaxTime
    /\ elapsed' = elapsed + 1
    /\ chan' = IF elapsed' % config.interval = 0 THEN 1 ELSE chan
    /\ instant' = (instant /\ pc = "wait")
    /\ inCall' = IF pc = "update" THEN inCall + 1 ELSE inCall
    /\ UNCHANGED <<cfgVars, obsVars, probe, config, client, newErr, pc, cancelled, started, tickVars,
                   histVars, cancelAt>>

\* The owner of the context given to Run cancels it.
Cancel ==
    /\ pc \in InLoop \cup {"constructed"}
    /\ ~cancelled
    /\ cancelled' = TRUE
    /\ cancelAt' = pc
    /\ UNCHANGED <<cfgVars, obsVars, probe, inCall, config, client, newErr, pc, elapsed, chan, started, tickVars,
                   histVars, instant>>

Next ==
    \/ New
    \/ RunEntry
    \/ ExecuteBegin
    \/ ResolveReturn
    \/ HostCall
    \/ HostReturn
    \/ ExecuteReturn
    \/ Receive
    \/ Tick
    \/ Cancel

Spec == Init /\ [][Next]_vars

\* ------------------------------------------ configurations with duplicates

\* A second entry for the name of host i, with credentials of its own.
Alias(i) == [Host(i) EXCEPT !.user = <<"w">> \o Itoa(i), !.password = <<"q">> \o Itoa(i)]

\* Host lists in which a name comes more than once.
DuplicateLists == { <<Host(1), Host(1)>>, <<Host(2), Host(1), Alias(2)>> }

InitDuplicates ==
    /\ Start([interval : {MaxInterval}, hosts : DuplicateLists], IPBodies)
    /\ cfgFile = "ok"

SpecDuplicates == InitDuplicates /\ [][Next]_vars

\* ------------------------------------- an IP-echo service with blank answers

InitBlank ==
    /\ Start([interval : {MaxInterval}, hosts : {<<Host(1)>>, <<Host(1), Host(2)>>}],
             IPBodies \cup BlankBodies)
    /\ cfgFile = "ok"

SpecBlank == InitBlank /\ [][Next]_vars

\* -------------------------------------------------- a configuration of two

InitTwo ==
    /\ Start([interval : 1..MaxInterval, hosts : {<<Host(1), Host(2)>>}], IPBodies)
    /\ cfgFile = "ok"

SpecTwo == InitTwo /\ [][Next]_vars

\* ------------------------------------------------ a configuration of three

InitThree ==
    /\ Start([interval : {MaxInterval}, hosts : {<<Host(1), Host(2), Host(3)>>}], IPBodies)
    /\ cfgFile = "ok"

SpecThree == InitThree /\ [][Next]_vars

\* ------------------------------------------- the pure functions on their own

\* The statuses and the bodies the answers given to updateHost are drawn from.
ProbeStatuses == {200, 204, 299, 300, 302, 404, 500}

ProbeBodies ==
    { <<"g", "o", "o", "d">>,
      <<"n", "o", "c", "h", "g">>,
      <<"g", "o", "o", "d", " ", "1", ".", "2", ".", "3", ".", "4">>,
      <<"n", "o", "c", "h", "g", " ", "1", ".", "2", ".", "3", ".", "4">>,
      <<"n", "o", "c", "h", "g", " ", "g", "o", "o", "d">>,
      <<"g", "o", "o", "d", " ", "n", "o", "c", "h", "g">>,
      <<"G", "O", "O", "D">>,
      <<"N", "o", "C", "h", "g">>,
      <<"G", "o", "o", "d", " ", "1", ".", "2">>,
      <<"n", "o", "h", "o", "s", "t">>,
      <<"b", "a", "d", "a", "u", "t", "h">>,
      <<"n", "o", "t", "f", "q", "d", "n">>,
      <<"b", "a", "d", "a", "g", "e", "n", "t">>,
      <<"a", "b", "u", "s", "e">>,
      <<"9", "1", "1">>,
      <<>>,
      <<"g", "o", "o">>,
      <<"x", "g", "o", "o", "d", "x">>,
      <<"n", "o", " ", "c", "h", "g">> }

ProbeResponses ==
    { [kind |-> k, status |-> 0, body |-> <<>>] : k \in {"transport", "timeout"} }
    \cup { [kind |-> k, status |-> st, body |-> <<>>] : k \in ReadKinds, st \in ProbeStatuses }
    \cup { [kind |-> "response", status |-> st, body |-> b] :
               st \in ProbeStatuses, b \in ProbeBodies }

\* No program is running: only the pure functions are applied.
InitPure == Init /\ cfgFile = "missing"

\* The answers given to externalIP: an address between two runs of whitespace.
ProbeAddrs == { <<"1", ".", "2", ".", "3", ".", "4">>, <<":", ":", "1">> }

ProbePads == { <<>>, <<"\f">>, <<" ">>, <<"\n">>, <<"\t", " ">>, <<"\r", "\n">> }

ProbeIPBodies == { p \o a \o q : a \in ProbeAddrs, p \in ProbePads, q \in ProbePads }

ProbeIPResponses ==
    { [kind |-> "transport", status |-> 0, body |-> <<>>] }
    \cup { [kind |-> k, status |-> st, body |-> <<>>] :
               k \in {"readerr", "readcanceled"}, st \in ProbeStatuses }
    \cup { [kind |-> "response", status |-> st, body |-> b] :
               st \in ProbeStatuses, b \in ProbeIPBodies }

\* updateHost is given one answer, for one host, under a context that is done
\* or not.
ProbeUpdateHost ==
    /\ probe.fn = "none"
    /\ \E ctxDone \in BOOLEAN, r \in ProbeResponses, h \in {Host(1), Host(2)} :
           probe' = [fn |-> "updateHost", ctxDone |-> ctxDone, r |-> r, host |-> h,
                     ip |-> <<>>,
                     err |-> updateHost(ctxDone, r),
                     log |-> updateHostLog(ctxDone, r, h)]
    /\ UNCHANGED <<cfgVars, obsVars, config, client, newErr, pc, cancelled, elapsed, chan, started,
                   tickVars, inCall, histVars, instant, cancelAt>>

\* externalIP is given one answer under a context that is done or not.
ProbeExternalIP ==
    /\ probe.fn = "none"
    /\ \E ctxDone \in BOOLEAN, r \in ProbeIPResponses :
           LET res == externalIP(ctxDone, r)
           IN probe' = [fn |-> "externalIP", ctxDone |-> ctxDone, r |-> r,
                        host |-> Host(1), ip |-> res.ip, err |-> res.err,
                        log |-> Entry("", "", <<>>)]
    /\ UNCHANGED <<cfgVars, obsVars, config, client, newErr, pc, cancelled, elapsed, chan, started,
                   tickVars, inCall, histVars, instant, cancelAt>>

NextPure == ProbeUpdateHost \/ ProbeExternalIP

SpecPure == InitPure /\ [][NextPure]_vars

\* ------------------------------------------------------------------ claims

\* Run has a pass to start at this very instant: it is at the top of the loop,
\* or it is at the receive and a tick is in the channel.
RunPending == pc = "loop" \/ (pc = "wait" /\ chan = 1)

\* The passes started so far, counting the one Run is about to start.
PassesDue == started + (IF RunPending THEN 1 ELSE 0)

\* C1: with interval > 0, Run starts a pass at once on entry and one more each
\* time an interval has elapsed: as long as every pass completed in no time and
\* the context is not cancelled, the number of passes started
\* within elapsed time D is floor(D / interval) + 1.
C1_PassesPerInterval ==
    (pc \in InLoop /\ instant /\ ~cancelled)
        => PassesDue = (elapsed \div config.interval) + 1

C1_Witness ==
    /\ pc = "wait" /\ chan = 0 /\ instant /\ ~cancelled
    /\ config.interval = 2 /\ elapsed = 4 /\ started = 3

\* C2: ticks are fixed-delay: no tick is queued while a pass is in flight, and
\* Run leaves its wait for the next pass no sooner than one full interval after
\* the previous pass returned.
FixedDelayStep ==
    /\ (pc \in InPass => chan = 0)
    /\ (pc = "wait" /\ pc' = "loop" => elapsed - lastReturn >= config.interval)

C2_FixedDelay == [][FixedDelayStep]_vars

\* C3: once the context was cancelled while Run waited between two ticks, no
\* further pass is started.
C3_NoPassAfterCancelInWait ==
    [][ cancelAt = "wait" => started' = started ]_vars

\* C4: when the context is cancelled while a pass is in flight, that pass still
\* calls updateHost for every host (if its IP resolution succeeded), and it is
\* the last pass: the loop exits after it.
CancelInFlightStep ==
    cancelAt \in InPass
        => /\ started' = started
           /\ (pc = "executed" /\ resolveErr = Nil => Len(calls) = Len(config.hosts))

C4_CancelInFlightFinishesThenExits == [][CancelInFlightStep]_vars

\* C5: once its context is cancelled (before or after Run was called), Run
\* returns: it leaves the wait for the next tick only by returning.
C5_RunReturnsOnCancel ==
    [][ (cancelled /\ pc = "wait" /\ pc' # "wait") => pc' = "returned" ]_vars

\* C6: a failing pass never stops Run: after a pass returned an error Run is
\* still in its loop, and the passes keep their pace of one per interval.
C6_FailingPassDoesNotStopRun ==
    lastErr # Nil
        => /\ pc \in InLoop
           /\ (instant /\ ~cancelled
                 => PassesDue = (elapsed \div config.interval) + 1)

C6_Witness ==
    /\ lastErr # Nil /\ ~cancelled /\ instant
    /\ pc = "resolve" /\ started = 2 /\ elapsed = config.interval

\* C7: an interval <= 0 is rejected by New: New returns an error and no
\* Service, and main never reaches Run.
C7_NonPositiveIntervalRejected ==
    (cfgFile = "ok" /\ cfgDoc.interval <= 0 /\ pc # "start")
        => (newErr # Nil /\ pc = "fatal")

\* C8: when externalIP failed in a pass, execute returns at once: no updateHost
\* call is made in that pass and the error execute returns wraps the error of
\* externalIP.
C8_ResolveFailureAbortsTick ==
    (pc \in InLoop /\ resolveErr # Nil)
        => /\ pc \in {"executed", "wait", "loop"}
           /\ calls = <<>>
           /\ err # Nil
           /\ Unwrap(err) = resolveErr
           /\ (pc # "executed" => lastErr = err)

C8_Witness ==
    /\ resolveErr # Nil /\ ~cancelled
    /\ pc = "wait" /\ Len(config.hosts) = 2 /\ calls = <<>> /\ lastErr # Nil

\* C9: once externalIP succeeded in a pass, updateHost is called for every
\* configured host, in the configured order, whatever the earlier calls
\* returned.
C9_EveryHostIsUpdated ==
    (pc \in {"executed", "wait", "loop"} /\ started > 0 /\ resolveErr = Nil)
        => /\ Len(calls) = Len(config.hosts)
           /\ Len(hostErrs) = Len(config.hosts)
           /\ \A i \in 1..Len(calls) : calls[i].host = config.hosts[i]

C9_Witness ==
    /\ pc = "executed" /\ resolveErr = Nil /\ ~cancelled
    /\ Len(config.hosts) = 2 /\ Len(calls) = 2
    /\ hostErrs[1] # Nil /\ hostErrs[2] = Nil

\* C10: execute returns a non-nil error when at least one updateHost call of
\* the pass failed.
C10_HostFailureIsReturned ==
    (pc = "executed" /\ \E i \in 1..Len(hostErrs) : hostErrs[i] # Nil)
        => err # Nil

\* The updateHost calls of this pass that have not returned yet.
InFlight == Len(calls) - Len(hostErrs)

\* C11: the host updates of a tick are concurrent: after a successful IP
\* resolution execute can launch the call of the next host while an earlier
\* host's call is still in flight.
C11_LaunchDoesNotWait ==
    (pc \in {"hosts", "update"} /\ Len(calls) < Len(config.hosts))
        => ENABLED HostCall

\* C12: a failed update of one host does not end the update of a sibling host:
\* a call of the pass fails with "context canceled" only when the context given
\* to Run was cancelled, whatever the other calls of the pass returned.
C12_SiblingFailureDoesNotCancel ==
    \A i \in 1..Len(hostErrs) :
        Unwrap(hostErrs[i]) = ErrCanceled => cancelled

\* The first host's update failed and the second host's update, made in the
\* same pass under a live context, succeeded.
C12_Witness ==
    /\ ~cancelled
    /\ Len(hostErrs) = 2
    /\ hostErrs[1] # Nil
    /\ hostErrs[2] = Nil

\* C13: in every pass externalIP is called exactly once and has returned
\* without error before any updateHost call is made, and every update request
\* of the pass carries, as myip, the address that call returned.
C13_ResolveOnceBeforeUpdates ==
    pc \in InPass =>
        /\ ipCalls = 1
        /\ pc = "resolve" => calls = <<>>
        /\ calls # <<>> => resolveErr = Nil
        /\ \A i \in 1..Len(calls) :
               /\ calls[i].ip = ip
               /\ calls[i].req.query.myip = <<ip>>

\* The second pass resolved 3.4 and has sent it to two hosts.
C13_Witness ==
    /\ started = 2
    /\ Len(calls) = 2
    /\ ip = <<"3", ".", "4">>
    /\ calls[2].req.query.myip = <<ip>>

\* C14: the passes are strictly sequential: at most one call of execute is in
\* progress, and a pass is only started when every earlier pass has returned,
\* all its update calls included.
C14_PassesSequential ==
    /\ started - finished \in {0, 1}
    /\ started - finished = 1 <=> pc \in InPass
    /\ pc \notin InPass \/ pc = "executed" => InFlight = 0

\* The second pass is resolving after a first pass over three hosts that took
\* longer than the interval.
C14_Witness ==
    /\ started = 2
    /\ finished = 1
    /\ pc = "resolve"
    /\ Len(config.hosts) = 3
    /\ lastReturn > config.interval

\* An entry of the logger that reports a failure and names a host.
IsHostFailure(e) == e.level = "error" /\ e.host # <<>>

\* The failures this pass has reported for hosts, in the order of the reports.
HostFailures == SelectSeq(log, IsHostFailure)

\* The positions of the hosts whose update has failed in this pass.
FailedHosts == {i \in 1..Len(hostErrs) : hostErrs[i] # Nil}

\* C15: with three configured hosts A, B, C of which only B's update fails,
\* the pass issues the update requests of A and of C and reports exactly one
\* failure, which names B; no failure names A or C.
C15_OneFailureReportedForB ==
    (/\ pc = "executed"
     /\ Len(config.hosts) = 3
     /\ FailedHosts = {2})
        => /\ Len(calls) = 3
           /\ calls[1].req.query.hostname = <<config.hosts[1].host>>
           /\ calls[3].req.query.hostname = <<config.hosts[3].host>>
           /\ Len(HostFailures) = 1
           /\ HostFailures[1].host = <<config.hosts[2].host>>

\* The pass over three hosts is over: the first and the third host were
\* updated, the update of the second was refused by the service.
C15_Witness ==
    /\ pc = "executed"
    /\ Len(hostErrs) = 3
    /\ hostErrs[1] = Nil
    /\ Unwrap(hostErrs[2]) = errDNSUpdate
    /\ hostErrs[3] = Nil
    /\ HostFailures = <<Entry("error", "failed to update host", <<Host(2).host>>)>>

\* The service answered the update request and the body could be read: the
\* case the spec calls classification.
Classified == probe.fn = "updateHost" /\ ~probe.ctxDone /\ probe.r.kind = "response"

\* The outcomes of the spec: updateHost returns nil after it logged that the
\* change was applied (Updated) or that no change was recorded (Unchanged),
\* and an error otherwise (Failed).
Updated ==
    /\ probe.err = Nil
    /\ probe.log = Entry("info", "change was successfully applied", <<probe.host.host>>)
Unchanged ==
    /\ probe.err = Nil
    /\ probe.log = Entry("info", "no change was recorded", <<probe.host.host>>)
Failed == probe.err # Nil /\ probe.log.level = "error"

\* C16 as stated: for a status of 300 or more the failure's detail is the
\* text "http status <status>".
C16_DetailIsHttpStatus ==
    (Classified /\ probe.r.status >= 300)
        => probe.err = Errorf("http status %d", Itoa(probe.r.status))

\* C16: for a status of 300 or more updateHost fails with "failed to query
\* Dynamic DNS Service, received '<status>'" whatever the body is, which is
\* never inspected: it yields neither Updated nor Unchanged.
C16_StatusDominatesBody ==
    (Classified /\ probe.r.status >= 300)
        => /\ probe.err = Errorf("failed to query Dynamic DNS Service, received '%d'",
                                 Itoa(probe.r.status))
           /\ Failed
           /\ ~Updated /\ ~Unchanged

\* The service answered 302 with the body "good".
C16_Witness ==
    /\ Classified
    /\ probe.r.status = 302
    /\ probe.r.body = StrGood
    /\ probe.err = Errorf("failed to query Dynamic DNS Service, received '%d'",
                          <<"3", "0", "2">>)

\* The words of the service that stand for a refused update.
FailureWords ==
    { <<"n", "o", "h", "o", "s", "t">>,
      <<"b", "a", "d", "a", "u", "t", "h">>,
      <<"n", "o", "t", "f", "q", "d", "n">>,
      <<"b", "a", "d", "a", "g", "e", "n", "t">>,
      <<"a", "b", "u", "s", "e">>,
      <<"9", "1", "1">> }

\* C17: for a status below 300 the update is Updated if the body contains
\* "good", else Unchanged if it contains "nochg", else Failed with an error
\* that wraps errDNSUpdate and carries the raw body; nohost, badauth, notfqdn,
\* badagent, abuse and 911 are such failures.
C17_BodyClassification ==
    (Classified /\ probe.r.status < 300)
        => /\ Contains(probe.r.body, StrGood) => Updated
           /\ (~Contains(probe.r.body, StrGood) /\ Contains(probe.r.body, StrNochg))
                  => Unchanged
           /\ (~Contains(probe.r.body, StrGood) /\ ~Contains(probe.r.body, StrNochg))
                  => /\ Failed
                     /\ Unwrap(probe.err) = errDNSUpdate
                     /\ probe.err[1].arg = probe.r.body
           /\ probe.r.body = <<"g", "o", "o", "d", " ", "1", ".", "2", ".", "3", ".", "4">> => Updated
           /\ probe.r.body = <<"n", "o", "c", "h", "g", " ", "1", ".", "2", ".", "3", ".", "4">> => Unchanged
           /\ probe.r.body \in FailureWords
                  => Failed /\ Unwrap(probe.err) = errDNSUpdate

\* The service answered 200 with the body "badauth".
C17_Witness ==
    /\ Classified
    /\ probe.r.status = 200
    /\ probe.r.body = <<"b", "a", "d", "a", "u", "t", "h">>
    /\ probe.err = Wrap(errDNSUpdate, "%s", <<"b", "a", "d", "a", "u", "t", "h">>)

\* C18: the body is matched by case-sensitive substring, "good" before
\* "nochg": a body with both words is Updated, a body with only "GOOD" or
\* "NoChg" is Failed.
C18_CaseSensitiveGoodFirst ==
    (Classified /\ probe.r.status < 300)
        => /\ (Contains(probe.r.body, StrGood) /\ Contains(probe.r.body, StrNochg))
                  => Updated
           /\ probe.r.body \in {<<"G", "O", "O", "D">>, <<"N", "o", "C", "h", "g">>}
                  => Failed

\* The service answered 200 with the body "nochg good".
C18_Witness ==
    /\ Classified
    /\ probe.r.status = 200
    /\ probe.r.body = StrNochg \o <<" ">> \o StrGood
    /\ Updated

\* The position of a character in the base64 alphabet, from 0.
DecodeChar(c) == (CHOOSE k \in 1..Len(encodeStd) : encodeStd[k] = c) - 1

RECURSIVE DecodeString(_)
\* The bytes a receiver decodes from base64 text: four characters give three
\* bytes, fewer where the group is padded.
DecodeString(s) ==
    IF Len(s) < 4 THEN <<>>
    ELSE LET v(k) == IF s[k] = "=" THEN 0 ELSE DecodeChar(s[k])
             n == v(1) * 262144 + v(2) * 4096 + v(3) * 64 + v(4)
             b == <<n \div 65536, (n \div 256) % 256, n % 256>>
             keep == IF s[3] = "=" THEN 1 ELSE IF s[4] = "=" THEN 2 ELSE 3
         IN SubSeq(b, 1, keep) \o DecodeString(SubSeq(s, 5, Len(s)))

\* C19: every request updateHost sends for a host and an address is a GET to
\* https://domains.google.com/nic/update whose query has hostname, the name of
\* the host, and myip, the address; its Authorization header is "Basic "
\* followed by the base64 text of that host's "user:password", and its
\* User-Agent header is not empty.  Each request is checked in the states where
\* it is the latest call of the pass.
C19_UpdateRequestShape ==
    \A i \in {Len(calls)} \ {0} :
        LET h == calls[i].host
            req == calls[i].req
            auth == req.header.Authorization
        IN /\ h = config.hosts[i]
           /\ req.method = "GET"
           /\ req.url = "https://domains.google.com/nic/update"
           /\ req.query = [hostname |-> <<h.host>>, myip |-> <<calls[i].ip>>]
           /\ Len(auth) = 1
           /\ SubSeq(auth[1], 1, Len(StrBasic)) = StrBasic
           /\ DecodeString(SubSeq(auth[1], Len(StrBasic) + 1, Len(auth[1])))
                  = Bytes(h.user \o <<":">> \o h.password)
           /\ Len(req.header.UserAgent) = 1
           /\ req.header.UserAgent[1] # ""

\* The request of the second host, whose credentials are u2 and p2, has been
\* sent with the address 1.2.
C19_Witness ==
    /\ Len(calls) >= 2
    /\ calls[2].req.query = [hostname |-> <<Host(2).host>>, myip |-> <<<<"1", ".", "2">>>>]
    /\ calls[2].req.header.Authorization = <<StrBasic \o <<"d", "T", "I", "6", "c", "D", "I", "=">>>>

\* What a step does with an update call that has been in flight for the
\* client's timeout: no more time passes in it, it returns the transport
\* failure of s.client.Do (the timeout, or the cancellation of the context),
\* logged as such and not as an answer of the service, and the pass goes on
\* to the next host or to its end.
TimeoutStep ==
    /\ pc' = "update" => inCall' <= httpTimeout
    /\ (pc = "update" /\ inCall >= httpTimeout)
          => /\ elapsed' = elapsed
             /\ pc' # "update"
                   => /\ Len(hostErrs') = Len(hostErrs) + 1
                      /\ LET cause == IF cancelled THEN ErrCanceled ELSE ErrTimeout
                             e == hostErrs'[Len(hostErrs')]
                             said == log'[Len(log') - 1]
                         IN \/ /\ e = Wrap(cause,
                                           "failed to make request to Dynamic DNS Service",
                                           <<>>)
                               /\ said = Entry("error",
                                               "failed to make request to DNS service", <<>>)
                            \/ /\ e = Wrap(cause,
                                           "failed to decode result from Dynamic DNS Service",
                                           <<>>)
                               /\ said = Entry("error",
                                               "failed to decode result from Dynamic DNS Service",
                                               <<>>)
                      /\ pc' = IF idx < Len(config.hosts) THEN "hosts" ELSE "executed"

\* C20: every update request is bounded by the 5 seconds of httpTimeout; a
\* request that reaches them ends as a transport failure of that host's
\* update (of the request, or of the reading of the body when the headers had
\* come in time), its answer is not classified (neither Updated nor
\* Unchanged), and the pass goes on.
C20_UpdateRequestTimesOut == [][TimeoutStep]_vars

\* The update of the first of two hosts was given up after 5 seconds under a
\* live context, and the pass has gone on to the second host.
C20_Witness ==
    /\ ~cancelled
    /\ Len(config.hosts) = 2
    /\ pc = "hosts"
    /\ idx = 2
    /\ elapsed >= httpTimeout
    /\ hostErrs = <<Wrap(ErrTimeout, "failed to make request to Dynamic DNS Service", <<>>)>>

\* C21: a pass never retries: it calls externalIP once and, for every entry of
\* the host list, updateHost at most once, in the order of the list; after a
\* failed resolution it makes no further call, and a failed update is followed
\* by the next entry, never by the same one.
C21_NoRetryInsidePass ==
    pc \in InPass =>
        /\ ipCalls = 1
        /\ resolveErr # Nil => pc = "executed" /\ calls = <<>>
        /\ Len(calls) <= Len(config.hosts)
        /\ \A i \in 1..Len(calls) : calls[i].host = config.hosts[i]
        /\ Len(hostErrs) <= Len(calls)

\* The second pass is over: the update of its first host failed and both hosts
\* were called once.
C21_Witness ==
    /\ started = 2
    /\ pc = "executed"
    /\ Len(config.hosts) = 2
    /\ Len(calls) = 2
    /\ Len(hostErrs) = 2
    /\ hostErrs[1] # Nil

\* errors.Is / errors.Cause: the cause can be recovered from the error.
HasCause(e, cause) == \E k \in 1..Len(e) : SubSeq(e, k, Len(e)) = cause

\* C22: externalIP fails, with no address, on every transport error, and the
\* error it returns wraps the cause, which can be recovered from it.
C22_FailureWrapsCause ==
    (probe.fn = "externalIP" /\ ~probe.ctxDone /\ probe.r.kind = "transport")
        => /\ probe.ip = <<>>
           /\ probe.err # Nil
           /\ HasCause(probe.err, ErrTransport)

\* C23: on a successful answer externalIP returns the body without its
\* leading and trailing white space: a body made of an address between two
\* runs of white space gives exactly the address.
C23_BodyIsTrimmed ==
    (probe.fn = "externalIP" /\ ~probe.ctxDone /\ probe.r.kind = "response"
       /\ probe.r.status < StatusMultipleChoices)
        => /\ probe.err = Nil
           /\ \A a \in ProbeAddrs, p \in ProbePads, q \in ProbePads :
                  probe.r.body = p \o a \o q => probe.ip = a

\* The service answered 200 with the address 1.2.3.4 after a tab and a space
\* and before a carriage return and a line feed.
C23_Witness ==
    /\ probe.fn = "externalIP"
    /\ ~probe.ctxDone
    /\ probe.r.status = 200
    /\ probe.r.body = <<"\t", " ", "1", ".", "2", ".", "3", ".", "4", "\r", "\n">>
    /\ probe.ip = <<"1", ".", "2", ".", "3", ".", "4">>

\* The Authorization header of a request made with the credentials of an entry.
BasicAuth(h) == StrBasic \o EncodeToString(Bytes(h.user \o <<":">> \o h.password))

\* C24: duplicate entries are not merged: a pass whose resolution succeeded
\* makes as many update requests as the configured list has entries, one per
\* entry, each for the name and with the credentials of its own entry.
C24_OneRequestPerEntry ==
    (pc = "executed" /\ resolveErr = Nil)
        => /\ Len(calls) = Len(cfgDoc.hosts)
           /\ \A i \in 1..Len(calls) :
                  /\ calls[i].req.query.hostname = <<cfgDoc.hosts[i].host>>
                  /\ calls[i].req.header.Authorization = <<BasicAuth(cfgDoc.hosts[i])>>

\* A pass over three entries is over: the first and the third are for the same
\* name and were sent with different credentials.
C24_Witness ==
    /\ pc = "executed"
    /\ Len(calls) = 3
    /\ calls[1].req.query.hostname = calls[3].req.query.hostname
    /\ calls[1].req.header.Authorization = <<BasicAuth(Host(2))>>
    /\ calls[3].req.header.Authorization = <<BasicAuth(Alias(2))>>

\* C25: right after New the host list of the Service is the configured list:
\* the same entries in the same order, duplicates included.
C25_HostsReadBackAsConfigured ==
    pc = "constructed" => config.hosts = cfgDoc.hosts

\* New has returned a Service for a list whose first and third entry have the
\* same name.
C25_Witness ==
    /\ pc = "constructed"
    /\ newErr = Nil
    /\ config.hosts = <<Host(2), Host(1), Alias(2)>>

\* C26: the configuration is loaded by New and never changed afterwards: no
\* step of Run, execute or updateHost changes the interval or the host list,
\* which stay those of the configuration file.
C26_ConfigIsImmutable ==
    [][pc # "start" => config' = config /\ cfgDoc' = cfgDoc]_vars

\* The third pass of a run goes through the two hosts the file configures.
C26_Witness ==
    /\ started = 3
    /\ pc = "update"
    /\ Len(config.hosts) = 2
    /\ config = cfgDoc

\* C27: when the configuration file is missing or malformed New returns an
\* error and no Service, main ends the process, and Run is never reached: no
\* address is resolved and no host is updated.
C27_BadConfigIsFatal ==
    cfgFile # "ok" =>
        /\ pc \in {"start", "fatal"}
        /\ pc = "fatal" => newErr # Nil
        /\ config = ZeroConfig
        /\ client = "nil"
        /\ started = 0
        /\ ipCalls = 0
        /\ calls = <<>>

\* New has failed on a malformed file and main has ended the process.
C27_Witness ==
    /\ cfgFile = "malformed"
    /\ pc = "fatal"
    /\ newErr = Wrap(Errorf("yaml", <<>>), "failed to read config file", <<>>)

\* C28: Run waits the configured interval between the end of a pass and the
\* start of the next one, after a failed pass as after a successful one.
WaitIsIntervalStep ==
    (pc = "wait" /\ pc' = "loop" /\ ~cancelled)
        => elapsed - lastReturn = config.interval

C28_WaitIsTheInterval == [][WaitIsIntervalStep]_vars

\* C29: every update call, in every pass, is sent with the one http.Client
\* that New has built and stored in the Service; nothing replaces that client
\* while Run goes on.
C29_OneClientForAllUpdates ==
    /\ pc \in InLoop => client = "New"
    /\ \A i \in 1..Len(calls) : calls[i].client = "New"

\* The second pass has sent the requests of two hosts.
C29_Witness ==
    /\ started = 2
    /\ Len(calls) = 2
    /\ calls[1].client = "New"
    /\ calls[2].client = "New"

\* C30 as stated: classifying an answer of the Dynamic DNS service is pure, it
\* performs no I/O: it writes nothing, the logger included.
C30_ClassifyingWritesNothing ==
    Classified => probe.log = NoProbe.log

\* C31: no address is carried from one pass to the next: execute starts with
\* an empty ip, every update request of a pass carries the address that pass
\* resolved, and a pass whose resolution succeeded calls updateHost for every
\* configured host, also when the address is the one the pass before sent.
C31_NoAddressCarriedOver ==
    /\ pc = "resolve" => (ip = <<>> /\ calls = <<>>)
    /\ (pc \in {"executed", "wait"} /\ started > 0 /\ resolveErr = Nil)
           => /\ Len(calls) = Len(config.hosts)
              /\ \A i \in 1..Len(calls) : calls[i].req.query.myip = <<ip>>
              /\ (prevIP = ip /\ config.hosts # <<>>)
                     => calls[Len(calls)].req.query.myip = <<prevIP>>

\* The second pass resolved 1.2, the address the first pass had sent, and has
\* sent it to both hosts again.
C31_Witness ==
    /\ started = 2
    /\ pc = "executed"
    /\ resolveErr = Nil
    /\ prevIP = <<"1", ".", "2">>
    /\ ip = prevIP
    /\ Len(calls) = 2
    /\ calls[1].req.query.myip = <<prevIP>>
    /\ calls[2].req.query.myip = <<prevIP>>

\* C32 as stated: every network call of a pass is bounded: once a call has
\* been in flight for the timeout, the pass is no longer blocked in it.  (In
\* the first pass the resolution is in flight since the ticker was created.)
C32_NetworkCallsAreBounded ==
    /\ (pc = "update" /\ deadlineExceeded(inCall)) => ~Blocked
    /\ (pc = "resolve" /\ started = 1 /\ ~cancelled /\ deadlineExceeded(elapsed))
           => ~Blocked

\* C33 as stated: no update request carries an empty myip.
C33_NoEmptyAddressIsSent ==
    \A i \in 1..Len(calls) : calls[i].req.query.myip # << <<>> >>

\* C34 as stated: every response body a pass obtained was closed by the
\* function that obtained it before that function returned.
C34_EveryBodyIsClosed ==
    \A i \in 1..Len(bodies) : bodies[i] = "closed"

\* How many times the pass recorded the measure name.
Recorded(name) == Cardinality({ i \in 1..Len(measures) : measures[i] = name })

\* A pass has returned and the next one has not begun.
PassDone == pc \in {"wait", "loop"} /\ finished > 0

\* C35: a pass records operation_errors once when execute returns an error
\* and not at all when it returns nil; it records operation_latency once on
\* every return path, and neither before execute returns.
C35_ErrorsAndLatencyPerPass ==
    /\ PassDone
           => /\ Recorded("operation_latency") = 1
              /\ Recorded("operation_errors") = (IF lastErr # Nil THEN 1 ELSE 0)
    /\ pc \in InPass
           => /\ Recorded("operation_latency") = 0
              /\ Recorded("operation_errors") = 0

\* The first pass failed to resolve the address, returned the error and
\* recorded the latency and one error.
C35_Witness ==
    /\ pc = "wait"
    /\ finished = 1
    /\ lastErr # Nil
    /\ measures = <<"operation_latency", "operation_errors">>

\* C36 as stated: every pass records operation_count once.
C36_CountedOncePerPass ==
    PassDone => Recorded("operation_count") = 1

\* C37: the context of every iteration of Run's loop is one span below the
\* context given to Run, however many iterations came before, and no span of
\* the iteration is open while Run waits for the next tick.
C37_IterationCtxFromRunCtx ==
    /\ pc \in InPass => (runCtx = 1 /\ "service.Run" \in spans)
    /\ pc = "wait" => (runCtx <= 1 /\ spans = {})

\* Run waits after its third iteration: its context was one span deep and
\* its spans are finished.
C37_Witness ==
    /\ pc = "wait"
    /\ finished = 3
    /\ runCtx = 1
    /\ spans = {}

====
